---- MODULE Spec2Model ----
(***************************************************************************)
(* FacePoke: the Engine (src/engine.py) with its two caches and the        *)
(* memoised _process_image, and the per-connection websocket loop          *)
(* (src/app.py).                                                           *)
(*                                                                         *)
(* The event loop runs one coroutine step at a time; a step of a coroutine *)
(* is everything between two awaits.  asyncio.to_thread hands a function   *)
(* to a worker thread: the thread's steps interleave with the loop's.      *)
(***************************************************************************)
EXTENDS Integers, Sequences, FiniteSets, TLC

\* ----------------------------------------------------------------- bounds
NumImages == 4      \* distinct image contents the environment can send
MaxCalls == 3       \* modify_image calls and websocket messages issued in a run
LruMaxSize == 2     \* stands for lru_cache(maxsize=256), scaled down
MaxParam == 1       \* edit parameters range over -MaxParam..MaxParam units
MaxEdits == 2       \* edits made in a row on one stored face

Tasks == {"t1", "t2"}      \* coroutines calling Engine.modify_image
Conns == {"c1", "c2"}      \* websocket connections served by websocket_handler
\* Tasks and connections are interchangeable: the second one is used only
\* once the first one has been.
Before(x) == IF x \in {"t2", "c2"} THEN {IF x = "t2" THEN "t1" ELSE "c1"} ELSE {}
Images == 1..NumImages

\* The face detector finds a face in every image but the last one.
HasFace(i) == i < NumImages

\* ------------------------------------------------------------ pure helpers
\* hashlib.md5(...).hexdigest(): a 32 character digest.  Raw file bytes and
\* the decoded pixel buffer of the same picture are different byte strings,
\* hence different digests; distinct contents give distinct digests.
md5(enc, i) == [enc |-> enc, img |-> i]
Hashes == {md5(e, i) : e \in {"raw", "pix"}, i \in Images}

\* The values modify_image can be handed as image_or_hash.
\*   bytes : raw image bytes of picture img
\*   b64   : a str whose length is not 32 and that decodes to picture img
\*   hex32 : a str of length 32, spelling the digest md5(enc, img)
\*   junk  : a str whose length is not 32 and that does not decode
\*   other : neither str, Image nor bytes (None, a number)
Inputs ==
    {[kind |-> "bytes", enc |-> "raw", img |-> i] : i \in Images}
    \cup {[kind |-> "b64", enc |-> "pix", img |-> i] : i \in Images}
    \cup {[kind |-> "hex32", enc |-> e, img |-> i] : e \in {"raw", "pix"}, i \in Images}
    \cup {[kind |-> "junk", enc |-> "-", img |-> 0],
          [kind |-> "other", enc |-> "-", img |-> 0]}

\* base64_data_uri_to_PIL_Image: decodes, or raises.
base64_data_uri_to_PIL_Image(x) ==
    IF x.kind = "b64" THEN [ok |-> TRUE, val |-> [type |-> "pil", img |-> x.img]]
    ELSE [ok |-> FALSE, val |-> "DecodeError"]

\* Engine.get_image_hash: [ok, val] with val the digest or the exception.
get_image_hash(x) ==
    CASE x.kind = "hex32" -> [ok |-> TRUE, val |-> md5(x.enc, x.img)]
      [] x.kind \in {"b64", "junk"} ->
            LET d == base64_data_uri_to_PIL_Image(x)
            IN IF d.ok THEN [ok |-> TRUE, val |-> md5("pix", d.val.img)]
               ELSE [ok |-> FALSE, val |-> d.val]
      [] x.kind = "bytes" -> [ok |-> TRUE, val |-> md5("raw", x.img)]
      [] OTHER -> [ok |-> FALSE, val |-> "Unsupported image type"]

\* dict assignment d[k] = v
Put(d, k, v) == [x \in DOMAIN d \cup {k} |-> IF x = k THEN v ELSE d[x]]

\* ------------------------------------------------------- keypoint algebra
\* x_s_info['kp'] is a tensor of shape (1, 21, 3): landmark j, coordinate k.
\* Numbers are exact: a factor f of the source is written f * 100000, and a
\* parameter value v is written 2 * v, so that pupil_y / 2 stays a whole
\* number; every keypoint is therefore counted in units of 1 / 200000.
Landmarks == 0..20
Coords == 0..2

\* params.get(name, 0)
ParamGetDefaultOne(p, n) == IF n \in DOMAIN p THEN p[n] ELSE 2

ParamGet(p, n) == IF n \in DOMAIN p THEN p[n] ELSE 0

\* The names the code reads from params.
ExpressionNames == {"smile", "aaa", "eee", "woo", "wink", "pupil_x", "pupil_y",
                    "eyes", "eyebrow"}
RotationNames == {"rotate_pitch", "rotate_yaw", "rotate_roll"}
RecognizedNames == ExpressionNames \cup RotationNames

\* A table in which the first smile factor depends on the sign of smile.
ModificationsSmileBySign(p) ==
    << <<"smile", 20, 1, IF ParamGet(p, "smile") > 0 THEN -1000 ELSE -500>>, <<"smile", 14, 1, -2000>>, <<"smile", 17, 1, 650>>,
       <<"smile", 17, 2, 300>>, <<"smile", 13, 1, -275>>, <<"smile", 16, 1, -275>>,
       <<"smile", 3, 1, -350>>, <<"smile", 7, 1, -350>>,
       <<"aaa", 19, 1, 100>>, <<"aaa", 19, 2, 10>>, <<"aaa", 17, 1, -10>>,
       <<"eee", 20, 2, -100>>, <<"eee", 20, 1, -100>>, <<"eee", 14, 1, -100>>,
       <<"woo", 14, 1, 100>>, <<"woo", 3, 1, -50>>, <<"woo", 7, 1, -50>>,
       <<"woo", 17, 2, -50>>,
       <<"wink", 11, 1, 100>>, <<"wink", 13, 1, -30>>, <<"wink", 17, 0, 30>>,
       <<"wink", 17, 1, 30>>, <<"wink", 3, 1, -30>>,
       <<"pupil_x", 11, 0, IF ParamGet(p, "pupil_x") > 0 THEN 70 ELSE 100>>,
       <<"pupil_x", 15, 0, IF ParamGet(p, "pupil_x") > 0 THEN 100 ELSE 70>>,
       <<"pupil_y", 11, 1, -100>>, <<"pupil_y", 15, 1, -100>>,
       <<"eyes", 11, 1, -100>>, <<"eyes", 13, 1, 30>>, <<"eyes", 15, 1, -100>>,
       <<"eyes", 16, 1, 30>>, <<"eyes", 1, 1, -25>>, <<"eyes", 2, 1, 25>>,
       <<"eyebrow", 1, 1, IF ParamGet(p, "eyebrow") > 0 THEN 100 ELSE 30>>,
       <<"eyebrow", 2, 1, IF ParamGet(p, "eyebrow") > 0 THEN -100 ELSE -30>>,
       <<"eyebrow", 1, 0, IF ParamGet(p, "eyebrow") <= 0 THEN -100 ELSE 0>>,
       <<"eyebrow", 2, 0, IF ParamGet(p, "eyebrow") <= 0 THEN 100 ELSE 0>> >>

\* A table in which pupil_x has one factor for both pupils and both signs.
ModificationsPupilXFlat(p) ==
    << <<"smile", 20, 1, -1000>>, <<"smile", 14, 1, -2000>>, <<"smile", 17, 1, 650>>,
       <<"smile", 17, 2, 300>>, <<"smile", 13, 1, -275>>, <<"smile", 16, 1, -275>>,
       <<"smile", 3, 1, -350>>, <<"smile", 7, 1, -350>>,
       <<"aaa", 19, 1, 100>>, <<"aaa", 19, 2, 10>>, <<"aaa", 17, 1, -10>>,
       <<"eee", 20, 2, -100>>, <<"eee", 20, 1, -100>>, <<"eee", 14, 1, -100>>,
       <<"woo", 14, 1, 100>>, <<"woo", 3, 1, -50>>, <<"woo", 7, 1, -50>>,
       <<"woo", 17, 2, -50>>,
       <<"wink", 11, 1, 100>>, <<"wink", 13, 1, -30>>, <<"wink", 17, 0, 30>>,
       <<"wink", 17, 1, 30>>, <<"wink", 3, 1, -30>>,
       <<"pupil_x", 11, 0, 100>>,
       <<"pupil_x", 15, 0, 100>>,
       <<"pupil_y", 11, 1, -100>>, <<"pupil_y", 15, 1, -100>>,
       <<"eyes", 11, 1, -100>>, <<"eyes", 13, 1, 30>>, <<"eyes", 15, 1, -100>>,
       <<"eyes", 16, 1, 30>>, <<"eyes", 1, 1, -25>>, <<"eyes", 2, 1, 25>>,
       <<"eyebrow", 1, 1, IF ParamGet(p, "eyebrow") > 0 THEN 100 ELSE 30>>,
       <<"eyebrow", 2, 1, IF ParamGet(p, "eyebrow") > 0 THEN -100 ELSE -30>>,
       <<"eyebrow", 1, 0, IF ParamGet(p, "eyebrow") <= 0 THEN -100 ELSE 0>>,
       <<"eyebrow", 2, 0, IF ParamGet(p, "eyebrow") <= 0 THEN 100 ELSE 0>> >>

\* The list `modifications` of _apply_facial_modifications, flattened:
\* <<parameter, landmark, coordinate, factor>>.
Modifications(p) ==
    << <<"smile", 20, 1, -1000>>, <<"smile", 14, 1, -2000>>, <<"smile", 17, 1, 650>>,
       <<"smile", 17, 2, 300>>, <<"smile", 13, 1, -275>>, <<"smile", 16, 1, -275>>,
       <<"smile", 3, 1, -350>>, <<"smile", 7, 1, -350>>,
       <<"aaa", 19, 1, 100>>, <<"aaa", 19, 2, 10>>, <<"aaa", 17, 1, -10>>,
       <<"eee", 20, 2, -100>>, <<"eee", 20, 1, -100>>, <<"eee", 14, 1, -100>>,
       <<"woo", 14, 1, 100>>, <<"woo", 3, 1, -50>>, <<"woo", 7, 1, -50>>,
       <<"woo", 17, 2, -50>>,
       <<"wink", 11, 1, 100>>, <<"wink", 13, 1, -30>>, <<"wink", 17, 0, 30>>,
       <<"wink", 17, 1, 30>>, <<"wink", 3, 1, -30>>,
       <<"pupil_x", 11, 0, IF ParamGet(p, "pupil_x") > 0 THEN 70 ELSE 100>>,
       <<"pupil_x", 15, 0, IF ParamGet(p, "pupil_x") > 0 THEN 100 ELSE 70>>,
       <<"pupil_y", 11, 1, -100>>, <<"pupil_y", 15, 1, -100>>,
       <<"eyes", 11, 1, -100>>, <<"eyes", 13, 1, 30>>, <<"eyes", 15, 1, -100>>,
       <<"eyes", 16, 1, 30>>, <<"eyes", 1, 1, -25>>, <<"eyes", 2, 1, 25>>,
       <<"eyebrow", 1, 1, IF ParamGet(p, "eyebrow") > 0 THEN 100 ELSE 30>>,
       <<"eyebrow", 2, 1, IF ParamGet(p, "eyebrow") > 0 THEN -100 ELSE -30>>,
       <<"eyebrow", 1, 0, IF ParamGet(p, "eyebrow") <= 0 THEN -100 ELSE 0>>,
       <<"eyebrow", 2, 0, IF ParamGet(p, "eyebrow") <= 0 THEN 100 ELSE 0>> >>

\* A loop in which an adjustment replaces what an earlier adjustment of the
\* same coordinate had added.
EarlierOnSame(adj, n) ==
    {m \in 1..(n - 1) : adj[m][2] = adj[n][2] /\ adj[m][3] = adj[n][3]}

LastOf(S) == CHOOSE m \in S : \A x \in S : x <= m

RECURSIVE OverwriteAdjustments(_, _, _, _)
OverwriteAdjustments(kp, p, adj, n) ==
    IF n > Len(adj) THEN kp
    ELSE OverwriteAdjustments(
            [kp EXCEPT ![adj[n][2]][adj[n][3]] =
                @ - (IF EarlierOnSame(adj, n) = {} THEN 0
                     ELSE ParamGet(p, adj[LastOf(EarlierOnSame(adj, n))][1])
                          * adj[LastOf(EarlierOnSame(adj, n))][4])
                  + ParamGet(p, adj[n][1]) * adj[n][4]],
            p, adj, n + 1)

\* x_d_new[i, j, k] += param_value * factor, for the adjustments from the
\* n-th on (the loop of lines 262-265).
RECURSIVE AddAdjustments(_, _, _, _)
AddAdjustments(kp, p, adj, n) ==
    IF n > Len(adj) THEN kp
    ELSE AddAdjustments(
            [kp EXCEPT ![adj[n][2]][adj[n][3]] = @ + ParamGet(p, adj[n][1]) * adj[n][4]],
            p, adj, n + 1)

\* Lines 268-269: the two pupil landmarks are moved by pupil_y once more.
PupilSpecialCase(kp, p) ==
    [kp EXCEPT ![11][1] = @ - ParamGet(p, "pupil_y") * 100,
               ![15][1] = @ - ParamGet(p, "pupil_y") * 100]

\* Line 270: params['eyes'] = params.get('eyes', 0) - params.get('pupil_y', 0) / 2.
EyesCoupling(p) == ParamGet(p, "eyes") - (ParamGet(p, "pupil_y") \div 2)

\* An edit that refuses parameter names it does not know.
ApplyRejectingUnknown(kp, p) ==
    IF DOMAIN p \subseteq RecognizedNames
    THEN [ok |-> TRUE,
          tab |-> AddAdjustments(kp, p, Modifications(p), 1),
          kp |-> PupilSpecialCase(AddAdjustments(kp, p, Modifications(p), 1), p),
          params |-> [n \in DOMAIN p \cup {"eyes"} |->
                        IF n = "eyes" THEN EyesCoupling(p) ELSE p[n]]]
    ELSE [ok |-> FALSE, tab |-> kp, kp |-> kp, params |-> p]

\* Engine._apply_facial_modifications(x_d_new, params): what it leaves in the
\* tensor and in the dict it was handed.
apply_facial_modifications(kp, p) ==
    [ok |-> TRUE,
     tab |-> AddAdjustments(kp, p, Modifications(p), 1),
     kp |-> PupilSpecialCase(AddAdjustments(kp, p, Modifications(p), 1), p),
     params |-> [n \in DOMAIN p \cup {"eyes"} |->
                   IF n = "eyes" THEN EyesCoupling(p) ELSE p[n]]]

\* get_rotation_matrix and scale * (x @ R) + t are left uninterpreted: the
\* result is named by what it is computed from.
RigidTransform(kp, pitch, yaw, roll, scale, t) ==
    [kp |-> kp, rot |-> <<pitch, yaw, roll>>, scale |-> scale, t |-> t]

\* x_s_info as the extractor returns it, for every picture.
KpInfos ==
    [i \in Images |->
        [kp |-> [j \in Landmarks |-> [k \in Coords |-> 1000 * i + 10 * j + k]],
         pitch |-> 2 * i, yaw |-> 4 * i, roll |-> 6 * i, scale |-> i, t |-> 3 * i]]

KpInfo(i) == KpInfos[i]

\* processed_data as built by _process_image from the cached image.
ProcessedData(image) ==
    [img_rgb |-> image.img, crop_info |-> image.img, x_s_info |-> KpInfo(image.img),
     f_s |-> image.img, x_s |-> image.img]

\* Lines 171-181 of modify_image: clone, edit, rotate.
\*   tab    : x_d_new after the loop over the table (line 265)
\*   mid    : the keypoints handed to the rigid transform
\*   out    : x_d_new after line 181
\*   params : the caller's dict after the call
EditKeypoints(info, p) ==
    LET m == apply_facial_modifications(info.kp, p) IN
    [ok |-> m.ok,
     tab |-> m.tab,
     mid |-> m.kp,
     out |-> RigidTransform(m.kp,
                            info.pitch + ParamGet(p, "rotate_pitch"),
                            info.yaw + ParamGet(p, "rotate_yaw"),
                            info.roll + ParamGet(p, "rotate_roll"),
                            info.scale, info.t),
     params |-> m.params]

\* An edit whose in-place additions act on the stored tensor itself.
BundleAfterEditInPlace(data, p) ==
    [data EXCEPT !.x_s_info.kp = EditKeypoints(data.x_s_info, p).mid]

\* processed_data after lines 171-181.  x_d_new is a clone (line 172), the
\* additions of lines 265, 268 and 269 act on the clone, line 181 binds
\* x_d_new to a new tensor, and processed_data is only read.
BundleAfterEdit(data, p) == data

\* Parameter maps a caller sends: some names (one of them not recognized),
\* each with a value of -MaxParam..MaxParam units.
ParamVals == {2 * v : v \in -MaxParam..MaxParam}
ParamDomains == {{}, {"smile"}, {"smile", "woo"}, {"eyes", "pupil_y"}, {"pupil_y"},
                 {"pupil_x"}, {"eyebrow"}, {"rotate_pitch", "rotate_yaw"},
                 {"zoom"}, {"eyes", "pupil_y", "zoom"}}
ParamMaps == UNION {[d -> ParamVals] : d \in ParamDomains}
FaceImages == {i \in Images : HasFace(i)}
\* The maps given to modify_image when the whole engine is explored.
EngineParamMaps == {[n \in {} |-> 0], [n \in {"pupil_y"} |-> 2]}

\* ---------------------------------------------------------------- state
VARIABLES
    image_cache,       \* Engine.image_cache: digest -> original image
    processed_cache,   \* Engine.processed_cache: digest -> processed data
    memo,              \* keys held by lru_cache of _process_image, oldest first
    pc,                \* per task: where its modify_image call stands
    arg,               \* per task: image_or_hash of the call
    hash,              \* per task: image_hash of the call
    result,            \* per task: what the last call returned or raised
    calls,             \* calls and messages issued so far
    heldAtCall,        \* per task: the bundle was cached when the call began
    wpc,               \* per connection: where websocket_handler stands
    pending,           \* per connection: the response being sent
    received,          \* per connection: requests (BINARY, TEXT) read so far
    out,               \* per connection: responses emitted, in order
    closedBy,          \* per connection: what ended the loop
    stored,            \* per task: the current call has run line 128
    editBase,          \* the picture whose stored keypoints are edited
    editParams,        \* the dict object the editing caller holds
    edits              \* the edits made on editBase, in order

engineVars == <<image_cache, processed_cache, memo, pc, arg, hash, result,
                heldAtCall, stored>>
storeVars == <<image_cache, processed_cache, memo>>
wsVars == <<wpc, pending, received, out, closedBy>>
editVars == <<editBase, editParams, edits>>
vars == <<image_cache, processed_cache, memo, pc, arg, hash, result, calls,
          heldAtCall, stored, wpc, pending, received, out, closedBy,
          editBase, editParams, edits>>

NoInput == [kind |-> "none", enc |-> "-", img |-> 0]
NoHash == [enc |-> "-", img |-> 0]
NoResult == [kind |-> "none", val |-> "-"]
Raised(m) == [kind |-> "error", val |-> m]
Returned(h) == [kind |-> "webp", val |-> h]
NoResponse == [req |-> 0, frame |-> "-", msg |-> "-", for |-> "-", held |-> FALSE,
               resumed |-> FALSE, busy |-> FALSE]

ServerInit ==
    /\ image_cache = <<>>
    /\ processed_cache = <<>>
    /\ memo = <<>>
    /\ pc = [t \in Tasks |-> "idle"]
    /\ arg = [t \in Tasks |-> NoInput]
    /\ hash = [t \in Tasks |-> NoHash]
    /\ result = [t \in Tasks |-> NoResult]
    /\ calls = 0
    /\ heldAtCall = [t \in Tasks |-> FALSE]
    /\ stored = [t \in Tasks |-> FALSE]
    /\ wpc = [c \in Conns |-> "receive"]
    /\ pending = [c \in Conns |-> NoResponse]
    /\ received = [c \in Conns |-> 0]
    /\ out = [c \in Conns |-> <<>>]
    /\ closedBy = [c \in Conns |-> "-"]

Init ==
    /\ ServerInit
    /\ editBase = 1
    /\ editParams = <<>>
    /\ edits = <<>>

\* ------------------------------------------------------- lru_cache wrapper
InMemo(h) == \E k \in 1..Len(memo) : memo[k] = h
Without(s, h) == SelectSeq(s, LAMBDA x : x # h)
\* a hit moves the key to the most recent end
LruTouch(h) == Append(Without(memo, h), h)
\* storing a new key drops the oldest one when the cache is full
LruStore(h) ==
    IF InMemo(h) THEN memo
    ELSE IF Len(memo) >= LruMaxSize THEN Append(Tail(memo), h)
    ELSE Append(memo, h)

\* ------------------------------------------------------------ modify_image
\* The model computations of a call, named by the position of the call.
Computations == {"extracting", "stitching", "warp_decode", "prepare_paste_back",
                 "paste_back"}

\* An engine that calls warp_decode on the event loop itself.
OffLoadedButWarpDecode == {"to_thread", "extracting", "stitching",
                           "prepare_paste_back", "paste_back"}

\* The positions at which the coroutine awaits asyncio.to_thread (lines 167,
\* 184, 187, 191 and 196): the work runs in a worker thread.
OffLoaded == {"to_thread", "extracting", "stitching", "warp_decode",
              "prepare_paste_back", "paste_back"}

\* The calls that are inside a computation on the event loop's own thread:
\* while there is one, nothing else of the loop runs.
LoopHeldBy == {t \in Tasks : pc[t] \notin OffLoaded \cup {"idle", "done"}}

\* The call fails: the except clause wraps the exception in ValueError.
Fail(t, m) ==
    /\ pc' = [pc EXCEPT ![t] = "done"]
    /\ result' = [result EXCEPT ![t] = Raised(m)]

\* A modify_image that hands every image to _process_image, cached or not.
NeedsProcessingAlways(h) == TRUE

\* Whether modify_image takes the line 167 branch (the bundle is not cached).
NeedsProcessing(h) == h \notin DOMAIN processed_cache

\* Lines 171-181 run on the processed_data of digest h, cache being
\* processed_cache as the step has left it so far: params is read here for
\* the first time, and processed_data is the object held in the cache.
Edit(h, cache) ==
    \E p \in EngineParamMaps :
        processed_cache' = IF h \in DOMAIN cache
                           THEN [cache EXCEPT ![h] = BundleAfterEdit(@, p)]
                           ELSE cache

\* Pictures with a face are interchangeable: they are numbered in the order
\* in which they first reach the engine.
Seen == {h.img : h \in DOMAIN image_cache}
InOrder(i) == HasFace(i) => \A j \in 1..(i - 1) : j \in Seen

\* Lines 152-169 up to the first await.
Call(t, x) ==
    /\ pc[t] \in {"idle", "done"}
    /\ LoopHeldBy = {}
    /\ \A u \in Before(t) : pc[u] # "idle"
    /\ InOrder(x.img)
    /\ calls < MaxCalls
    /\ calls' = calls + 1
    /\ arg' = [arg EXCEPT ![t] = x]
    /\ stored' = [stored EXCEPT ![t] = FALSE]
    /\ LET g == get_image_hash(x) IN
       IF ~g.ok
       THEN /\ Fail(t, g.val)
            /\ hash' = [hash EXCEPT ![t] = NoHash]
            /\ heldAtCall' = [heldAtCall EXCEPT ![t] = FALSE]
            /\ UNCHANGED <<image_cache, processed_cache, memo>>
       ELSE LET h == g.val IN
            /\ hash' = [hash EXCEPT ![t] = h]
            /\ heldAtCall' = [heldAtCall EXCEPT ![t] = h \in DOMAIN processed_cache]
            /\ IF h \in DOMAIN image_cache
               THEN /\ UNCHANGED image_cache
                    /\ IF NeedsProcessing(h)
                       THEN /\ pc' = [pc EXCEPT ![t] = "to_thread"]
                            /\ UNCHANGED processed_cache
                       ELSE /\ pc' = [pc EXCEPT ![t] = "stitching"]
                            /\ Edit(h, processed_cache)
                    /\ result' = [result EXCEPT ![t] = NoResult]
               ELSE IF x.kind = "bytes"
               THEN /\ image_cache' = Put(image_cache, h, [type |-> "bytes", img |-> x.img])
                    /\ IF NeedsProcessing(h)
                       THEN /\ pc' = [pc EXCEPT ![t] = "to_thread"]
                            /\ UNCHANGED processed_cache
                       ELSE /\ pc' = [pc EXCEPT ![t] = "stitching"]
                            /\ Edit(h, processed_cache)
                    /\ result' = [result EXCEPT ![t] = NoResult]
               ELSE IF x.kind = "b64"
               THEN /\ image_cache' = Put(image_cache, h, base64_data_uri_to_PIL_Image(x).val)
                    /\ IF NeedsProcessing(h)
                       THEN /\ pc' = [pc EXCEPT ![t] = "to_thread"]
                            /\ UNCHANGED processed_cache
                       ELSE /\ pc' = [pc EXCEPT ![t] = "stitching"]
                            /\ Edit(h, processed_cache)
                    /\ result' = [result EXCEPT ![t] = NoResult]
               ELSE /\ Fail(t, "Image not found in cache and no valid image provided")
                    /\ UNCHANGED <<image_cache, processed_cache>>
            /\ UNCHANGED memo
    /\ UNCHANGED <<wsVars, editVars>>

\* The worker thread enters the lru_cache wrapper of _process_image.
\* A hit returns the memoised data and the coroutine goes on to the edit;
\* a miss starts the body of _process_image.
ProcessLookup(t) ==
    /\ pc[t] = "to_thread"
    /\ LoopHeldBy \subseteq {t}
    /\ IF InMemo(hash[t])
       THEN /\ memo' = LruTouch(hash[t])
            /\ pc' = [pc EXCEPT ![t] = "stitching"]
            /\ Edit(hash[t], processed_cache)
            /\ UNCHANGED result
       ELSE IF hash[t] \notin DOMAIN image_cache
       THEN /\ Fail(t, "not found in cache")
            /\ UNCHANGED <<memo, processed_cache>>
       ELSE /\ pc' = [pc EXCEPT ![t] = "extracting"]
            /\ UNCHANGED <<memo, result, processed_cache>>
    /\ UNCHANGED <<image_cache, arg, hash, calls, heldAtCall, stored>>
    /\ UNCHANGED <<wsVars, editVars>>

\* The body of _process_image ends: crop_single_image raises when no face
\* is found; otherwise the data is stored (line 128) and memoised.
\* The awaiting coroutine then resumes with the returned data, which is
\* local to it, and runs the edit (lines 171-181) up to the stitching await.
ProcessFinish(t) ==
    /\ pc[t] = "extracting"
    /\ LoopHeldBy \subseteq {t}
    /\ LET image == image_cache[hash[t]] IN
       IF HasFace(image.img)
       THEN /\ Edit(hash[t], Put(processed_cache, hash[t], ProcessedData(image)))
            /\ memo' = LruStore(hash[t])
            /\ pc' = [pc EXCEPT ![t] = "stitching"]
            /\ stored' = [stored EXCEPT ![t] = TRUE]
            /\ UNCHANGED result
       ELSE /\ Fail(t, "No face detected in the source image")
            /\ UNCHANGED <<processed_cache, memo, stored>>
    /\ UNCHANGED <<image_cache, arg, hash, calls, heldAtCall>>
    /\ UNCHANGED <<wsVars, editVars>>

\* The keys of processed_data (inference_cfg, a configuration object, is
\* left out of the model).
BundleFields == {"img_rgb", "crop_info", "x_s_info", "f_s", "x_s"}

\* The positions at which the next step of a call is taken by the worker
\* thread of asyncio.to_thread(self._process_image, image_hash): the
\* lru_cache wrapper and the body of _process_image.
WorkerPositions == {"to_thread", "extracting"}

\* An extraction that stores what it has built so far when a step fails.
ProcessErrorStoresPartial(t) ==
    /\ pc[t] = "extracting"
    /\ LoopHeldBy \subseteq {t}
    /\ Fail(t, "inference failed")
    /\ processed_cache' = Put(processed_cache, hash[t],
                              [img_rgb |-> image_cache[hash[t]].img,
                               crop_info |-> image_cache[hash[t]].img])
    /\ UNCHANGED <<image_cache, memo, arg, hash, calls, heldAtCall, stored>>
    /\ UNCHANGED <<wsVars, editVars>>

\* A wrapper that memoises the failure as if it were a result.
ProcessErrorRemembered(t) ==
    /\ pc[t] = "extracting"
    /\ Fail(t, "inference failed")
    /\ memo' = LruStore(hash[t])
    /\ UNCHANGED <<image_cache, processed_cache, arg, hash, calls,
                   heldAtCall, stored>>
    /\ UNCHANGED <<wsVars, editVars>>

\* A model call made by _process_image fails (any exception of the pipeline).
ProcessError(t) ==
    /\ pc[t] = "extracting"
    /\ LoopHeldBy \subseteq {t}
    /\ Fail(t, "inference failed")
    /\ UNCHANGED <<image_cache, processed_cache, memo, arg, hash, calls,
                   heldAtCall, stored>>
    /\ UNCHANGED <<wsVars, editVars>>

\* The four off-loaded steps of the render, in order, then the encoding.
NextStage(s) ==
    CASE s = "stitching" -> "warp_decode"
      [] s = "warp_decode" -> "prepare_paste_back"
      [] s = "prepare_paste_back" -> "paste_back"
      [] s = "paste_back" -> "done"

RenderStages == {"stitching", "warp_decode", "prepare_paste_back", "paste_back"}

RenderStep(t) ==
    /\ pc[t] \in RenderStages
    /\ LoopHeldBy \subseteq {t}
    /\ pc' = [pc EXCEPT ![t] = NextStage(pc[t])]
    /\ result' = [result EXCEPT ![t] =
          IF pc[t] = "paste_back" THEN Returned(hash[t]) ELSE NoResult]
    /\ UNCHANGED <<image_cache, processed_cache, memo, arg, hash, calls,
                   heldAtCall, stored>>
    /\ UNCHANGED <<wsVars, editVars>>

RenderError(t) ==
    /\ pc[t] \in RenderStages
    /\ LoopHeldBy \subseteq {t}
    /\ Fail(t, "inference failed")
    /\ UNCHANGED <<image_cache, processed_cache, memo, arg, hash, calls,
                   heldAtCall, stored>>
    /\ UNCHANGED <<wsVars, editVars>>

\* ------------------------------------------------------- websocket_handler
\* The attributes an Engine instance has that can be called (src/engine.py
\* defines no other method).
EngineMethods == {"get_image_hash", "_process_image", "modify_image",
                  "_apply_facial_modifications"}

\* What ws.receive() can return.
WsMessages ==
    {[type |-> "BINARY", text |-> "-", img |-> i, uuid |-> NoHash] : i \in Images}
    \cup {[type |-> "TEXT", text |-> "object", img |-> 0, uuid |-> md5("raw", i)] :
            i \in Images}
    \cup {[type |-> "TEXT", text |-> "malformed", img |-> 0, uuid |-> NoHash]}
    \cup {[type |-> ty, text |-> "-", img |-> 0, uuid |-> NoHash] :
            ty \in {"CLOSE", "ERROR", "CLOSED"}}

\* A loop that reads the next message while a response is still being sent.
CanReceiveWhileSending(c) == wpc[c] \in {"receive", "send_json"}

\* The connection may read its next message.
CanReceive(c) == wpc[c] = "receive"

\* A handler without the inner except clause: the exception reaches the
\* outer one, which ends the loop.
WsRaiseEscapes(c, m, e) ==
    /\ wpc' = [wpc EXCEPT ![c] = "closed"]
    /\ closedBy' = [closedBy EXCEPT ![c] = e]
    /\ UNCHANGED pending

\* An exception raised inside the inner try: the except clause of line 86
\* logs it and awaits ws.send_json({"error": str(e)}).
WsRaise(c, m, e) ==
    /\ wpc' = [wpc EXCEPT ![c] = "send_json"]
    /\ pending' = [pending EXCEPT ![c] =
          [req |-> received[c] + 1, frame |-> "json", msg |-> e, for |-> m.type,
           held |-> m.uuid \in DOMAIN processed_cache,
           resumed |-> \E d \in Conns : wpc[d] = "closed",
           busy |-> \E t \in Tasks : pc[t] \in Computations]]
    /\ UNCHANGED closedBy

\* The engine call of lines 77 and 83: the attribute is looked up first.
WsEngineCall(c, m, method) ==
    IF method \in EngineMethods
    THEN /\ wpc' = [wpc EXCEPT ![c] = "await_engine"]
         /\ pending' = [pending EXCEPT ![c] =
               [req |-> received[c] + 1, frame |-> "-", msg |-> method,
                for |-> m.type, held |-> m.uuid \in DOMAIN processed_cache,
                resumed |-> \E d \in Conns : wpc[d] = "closed",
           busy |-> \E t \in Tasks : pc[t] \in Computations]]
         /\ UNCHANGED closedBy
    ELSE WsRaise(c, m, "AttributeError")

\* ws.receive() returns m and the loop body runs up to its next await.
Receive(c, m) ==
    /\ CanReceive(c)
    /\ LoopHeldBy = {}
    /\ \A d \in Before(c) : received[d] > 0 \/ wpc[d] = "closed"
    /\ calls < MaxCalls
    /\ calls' = calls + 1
    /\ IF m.type \in {"CLOSE", "ERROR"}
       THEN /\ wpc' = [wpc EXCEPT ![c] = "closed"]
            /\ closedBy' = [closedBy EXCEPT ![c] = m.type]
            /\ UNCHANGED <<pending, received>>
       ELSE IF m.type = "BINARY"
       THEN /\ received' = [received EXCEPT ![c] = @ + 1]
            /\ WsEngineCall(c, m, "load_image")
       ELSE IF m.type = "TEXT"
       THEN /\ received' = [received EXCEPT ![c] = @ + 1]
            /\ IF m.text = "malformed"
               THEN WsRaise(c, m, "JSONDecodeError")
               ELSE WsEngineCall(c, m, "transform_image")
       ELSE UNCHANGED <<wpc, pending, received, closedBy>>
    /\ UNCHANGED out
    /\ UNCHANGED <<engineVars, editVars>>

\* ws.send_json completes: the response is on the wire, the loop goes round.
\* (The transport is taken to deliver what the handler sends.)
SendJson(c) ==
    /\ wpc[c] = "send_json"
    /\ LoopHeldBy = {}
    /\ out' = [out EXCEPT ![c] = Append(@, pending[c])]
    /\ pending' = [pending EXCEPT ![c] = NoResponse]
    /\ wpc' = [wpc EXCEPT ![c] = "receive"]
    /\ UNCHANGED <<received, closedBy, calls>>
    /\ UNCHANGED <<engineVars, editVars>>

\* Callers in T invoke modify_image with inputs in X.
EngineNext(T, X) ==
    \/ \E t \in T, x \in X : Call(t, x)
    \/ \E t \in T : ProcessLookup(t)
    \/ \E t \in T : ProcessFinish(t)
    \/ \E t \in T : ProcessError(t)
    \/ \E t \in T : RenderStep(t)
    \/ \E t \in T : RenderError(t)

WsNext ==
    \/ \E c \in Conns, m \in WsMessages : Receive(c, m)
    \/ \E c \in Conns : SendJson(c)

\* The engine under every caller and every input.
Next == EngineNext(Tasks, Inputs)
Spec == Init /\ [][Next]_vars

\* The websocket server: two connections, while one caller feeds the engine
\* image bytes.
BytesInputs == {x \in Inputs : x.kind = "bytes"}
WsServerNext == WsNext \/ EngineNext({"t1"}, BytesInputs)
WsSpec == Init /\ [][WsServerNext]_vars

\* ------------------------------------------------- the keypoint edit alone
\* One stored face and one caller: the caller edits the face again and again,
\* handing modify_image either the dict object it used before or a fresh
\* dict with the contents the first call was given.
EditInit ==
    /\ ServerInit
    /\ editBase \in FaceImages
    /\ editParams \in ParamMaps
    /\ edits = <<>>

RecordEdit(p, same) ==
    LET e == EditKeypoints(KpInfo(editBase), p) IN
    /\ edits' = Append(edits, [in |-> p, same |-> same, ok |-> e.ok,
                               tab |-> e.tab, mid |-> e.mid, out |-> e.out,
                               after |-> e.params])
    /\ editParams' = e.params
    /\ UNCHANGED <<editBase, engineVars, calls, wsVars>>

EditSameObject ==
    /\ Len(edits) < MaxEdits
    /\ \A k \in 1..Len(edits) : edits[k].same
    /\ RecordEdit(editParams, TRUE)

EditEqualCopy ==
    /\ Len(edits) \in 1..(MaxEdits - 1)
    /\ RecordEdit(edits[1].in, FALSE)

EditNext == EditSameObject \/ EditEqualCopy
EditSpec == EditInit /\ [][EditNext]_vars

\* ================================================================ claims
NotFoundMsg == "Image not found in cache and no valid image provided"
NoFaceMsg == "No face detected in the source image"

\* C1. Two modify_image calls in flight at once with byte-identical image
\* payloads never both run the extraction body: the extraction of one
\* content is invoked once.  (Stated as the claim; the code violates it.)
C1_OneExtractionPerContent ==
    \A t \in Tasks, u \in Tasks :
        (t # u /\ arg[t].kind = "bytes" /\ arg[u] = arg[t])
            => ~(pc[t] = "extracting" /\ pc[u] = "extracting")

\* C2. The store never holds more than N sessions, N being the capacity
\* (the maxsize of the memoising decorator).  (Stated as the claim; the code
\* violates it.)
C2_StoreBounded == Cardinality(DOMAIN processed_cache) <= LruMaxSize

\* C3. A lookup with a string that the store never issued (no digest it
\* holds) fails with the not-found error and with no other error.  (Stated
\* as the claim; the code violates it.)
NeverIssued(x) ==
    \/ x.kind = "junk"
    \/ x.kind = "hex32" /\ md5(x.enc, x.img) \notin DOMAIN image_cache
C3_UnknownIdIsNotFound ==
    \A t \in Tasks :
        (pc[t] = "done" /\ NeverIssued(arg[t])) => result[t] = Raised(NotFoundMsg)

\* C4. After an upload whose extraction failed because no face was found,
\* no cache of the store holds an entry for that content's digest.  (Stated
\* as the claim; the code violates it.)
C4_FailedUploadLeavesNoEntry ==
    \A t \in Tasks :
        (pc[t] = "done" /\ result[t] = Raised(NoFaceMsg))
            => /\ hash[t] \notin DOMAIN image_cache
               /\ hash[t] \notin DOMAIN processed_cache

\* C5. Every failure raised while a message is handled becomes an {error}
\* response on the same connection and leaves the loop running: a loop ends
\* only on a CLOSE or ERROR message, every request read has been answered or
\* is being answered, and what answers a failed request is the error record.
HandlingFailures == {"AttributeError", "JSONDecodeError"}
C5_FailureAnsweredLoopContinues ==
    \A c \in Conns :
        /\ wpc[c] = "closed" => closedBy[c] \in {"CLOSE", "ERROR"}
        /\ wpc[c] \in {"receive", "closed"} => Len(out[c]) = received[c]
        /\ wpc[c] = "send_json" =>
              /\ Len(out[c]) + 1 = received[c]
              /\ pending[c].frame = "json" /\ pending[c].msg \in HandlingFailures
        /\ \A k \in 1..Len(out[c]) :
              out[c][k].msg \in HandlingFailures => out[c][k].frame = "json"

\* C5 witness: a connection that answered a malformed payload and a failed
\* engine call with error records and is awaiting its next message.
C5_Witness ==
    \E c \in Conns :
        /\ wpc[c] = "receive"
        /\ \E j \in 1..Len(out[c]), k \in 1..Len(out[c]) :
              /\ out[c][j].msg = "JSONDecodeError"
              /\ out[c][k].msg = "AttributeError"

\* C6. On each connection the k-th response answers the k-th request: a
\* request is read only when every earlier one has been answered.
C6_ResponsesInRequestOrder ==
    \A c \in Conns :
        /\ \A k \in 1..Len(out[c]) : out[c][k].req = k
        /\ wpc[c] = "send_json" =>
              /\ pending[c].req = Len(out[c]) + 1
              /\ pending[c].req = received[c]

\* C6 witness: one connection has answered two requests while the other one
\* was being served in between.
C6_Witness ==
    \E c \in Conns, d \in Conns :
        /\ c # d
        /\ Len(out[c]) = 2
        /\ received[d] = 1

\* C7. The response to an Upload comes out of the store's ingest: it is the
\* session descriptor, or an error that ingest raised.  (Stated as the
\* claim; the code violates it.)
IngestFailures == {NoFaceMsg, "inference failed", "DecodeError", "Unsupported image type"}
C7_UploadAnsweredByIngest ==
    \A c \in Conns : \A k \in 1..Len(out[c]) :
        out[c][k].for = "BINARY"
            => \/ out[c][k].frame = "descriptor"
               \/ out[c][k].frame = "json" /\ out[c][k].msg \in IngestFailures

\* C8. The response to an Edit whose session id the store held when the
\* message was read is the encoded image (a binary frame), not an error
\* record.  (Stated as the claim; the code violates it.)
C8_EditOfHeldSessionReturnsImage ==
    \A c \in Conns : \A k \in 1..Len(out[c]) :
        (out[c][k].for = "TEXT" /\ out[c][k].held) => out[c][k].frame = "bytes"

\* C9. Sessions outlive connections: an Edit read after another connection
\* has closed, for a session the store holds, is still answered with the
\* image.  (Stated as the claim; the code violates it.)
C9_SessionUsableAfterClose ==
    \A d \in Conns : \A k \in 1..Len(out[d]) :
        (out[d][k].for = "TEXT" /\ out[d][k].held /\ out[d][k].resumed)
            => out[d][k].frame = "bytes"

\* C9, the part the code keeps: the step that ends a connection's loop
\* changes no cache of the store.
C9_CloseLeavesStore ==
    [][(\E c \in Conns : wpc[c] # "closed" /\ wpc'[c] = "closed")
          => UNCHANGED storeVars]_vars

\* C10. A call that begins when the bundle of its digest is cached (an Edit
\* of that session, a re-upload of the same bytes) never hands the image to
\* _process_image: it neither waits for the worker nor runs the extraction.
C10_CachedBundleReused ==
    \A t \in Tasks : heldAtCall[t] => pc[t] \notin {"to_thread", "extracting"}

\* C10 witness: an Edit by digest and a re-upload of the same bytes, both
\* begun with the bundle cached, both rendered.
C10_Witness ==
    \E t \in Tasks, u \in Tasks :
        /\ t # u
        /\ heldAtCall[t] /\ arg[t].kind = "hex32" /\ result[t].kind = "webp"
        /\ heldAtCall[u] /\ arg[u].kind = "bytes" /\ result[u].kind = "webp"
        /\ hash[t] = hash[u]

\* ---------------------------------------------------------------------
\* C11: for a fixed baseline and pose, every repetition of the keypoint edit
\* with the parameter map of the first call gives the keypoints the first
\* call gave, also when the caller hands over the very dict object it used
\* before.  Line 270 writes params['eyes'] into that object, so a repetition
\* with pupil_y # 0 starts from another eyes value: the formula is violated.
C11_RepeatedEditIdentical ==
    \A k \in 1..Len(edits) : edits[k].out = edits[1].out

\* What does hold: a fresh dict with the first call's contents repeats it.
C11_FreshCopyIdentical ==
    \A k \in 1..Len(edits) : ~edits[k].same => edits[k].out = edits[1].out

\* ---------------------------------------------------------------------
\* C12: an edit given an empty parameter map hands the baseline keypoints to
\* the rigid transform, and the rotation is built from the stored pitch, yaw
\* and roll.
C12_EmptyMapIsBaseline ==
    \A k \in 1..Len(edits) :
        DOMAIN edits[k].in = {} =>
            /\ edits[k].mid = KpInfo(editBase).kp
            /\ edits[k].out = RigidTransform(KpInfo(editBase).kp,
                                             KpInfo(editBase).pitch,
                                             KpInfo(editBase).yaw,
                                             KpInfo(editBase).roll,
                                             KpInfo(editBase).scale,
                                             KpInfo(editBase).t)

C12_Witness ==
    /\ Len(edits) >= 1
    /\ DOMAIN edits[1].in = {}
    /\ editBase > 1

\* ---------------------------------------------------------------------
\* C13: within one call, the eyes entries of the table are applied with
\* eyes - pupil_y / 2, next to the direct pupil_y moves of landmarks 11 and
\* 15.  The code applies the table with the raw eyes value and computes
\* eyes - pupil_y / 2 only afterwards (line 270): the formula is violated.
ExpectedCoupled(kp, p) ==
    LET q == [n \in DOMAIN p \cup {"eyes"} |->
                IF n = "eyes" THEN EyesCoupling(p) ELSE p[n]] IN
    PupilSpecialCase(AddAdjustments(kp, q, Modifications(q), 1), q)

C13_EyesTableUsesCoupledValue ==
    Len(edits) >= 1 =>
        edits[1].mid = ExpectedCoupled(KpInfo(editBase).kp, edits[1].in)

\* ---------------------------------------------------------------------
\* C20: parameter names outside the twelve recognized ones are ignored: the
\* edit succeeds, and its keypoints are those of the edit given only the
\* recognized names of the map.
Recognized(p) == [n \in DOMAIN p \cap RecognizedNames |-> p[n]]

C20_UnrecognizedNamesIgnored ==
    \A k \in 1..Len(edits) :
        /\ edits[k].ok
        /\ edits[k].mid = EditKeypoints(KpInfo(editBase), Recognized(edits[k].in)).mid
        /\ edits[k].out = EditKeypoints(KpInfo(editBase), Recognized(edits[k].in)).out

C20_Witness ==
    /\ Len(edits) >= 1
    /\ "zoom" \in DOMAIN edits[1].in
    /\ edits[1].in["zoom"] # 0
    /\ "eyes" \in DOMAIN edits[1].in
    /\ edits[1].in["eyes"] # 0

\* ---------------------------------------------------------------------
\* C14: a stored bundle is never mutated: at every moment each entry of
\* processed_cache is the data the extraction built from the cached image,
\* whatever edits have been made on it since.
C14_BundleNeverMutated ==
    \A h \in DOMAIN processed_cache :
        processed_cache[h] = ProcessedData(image_cache[h])

C14_Witness ==
    \E t \in Tasks :
        /\ pc[t] = "done"
        /\ result[t].kind = "webp"
        /\ arg[t].kind = "hex32"
        /\ heldAtCall[t]

\* ---------------------------------------------------------------------
\* C15: an Edit (a call given a session id) that fails has added no entry
\* to any cache of the store.  A call given the digest of an image whose
\* extraction had failed finds the image in image_cache, extracts it, stores
\* the bundle (line 128) and may then fail in the render: the formula is
\* violated.
C15_FailedEditLeavesStore ==
    \A t \in Tasks :
        (pc[t] = "done" /\ result[t].kind = "error" /\ arg[t].kind = "hex32")
            => ~stored[t]

\* ---------------------------------------------------------------------
\* C16: a successful lookup of a session makes it the most recently used
\* entry of the bounded cache, so that the next insertion evicts another
\* one.  The only bounded cache is the lru_cache wrapper, and a call that
\* finds its bundle in processed_cache (line 169) never goes through it: the
\* formula is violated.
C16_LookupRefreshesRecency ==
    [][\A t \in Tasks :
          (pc[t] \in {"idle", "done"} /\ pc'[t] = "stitching" /\ InMemo(hash'[t]))
              => memo'[Len(memo')] = hash'[t]]_vars

\* ---------------------------------------------------------------------
\* C17: a failed extraction is not remembered: as long as no bundle is
\* stored for a digest, a call that reaches the wrapper of _process_image
\* with it runs the extractor; no memoised entry and no entry of
\* processed_cache stands for a failure.
C17_FailedExtractionNotRemembered ==
    [][\A t \in Tasks :
          (/\ pc[t] = "to_thread"
           /\ pc'[t] # "to_thread"
           /\ hash[t] \notin DOMAIN processed_cache)
              => (pc'[t] = "extracting" /\ memo' = memo)]_vars

C17_Witness ==
    /\ pc["t1"] = "extracting"
    /\ pc["t2"] = "idle"
    /\ calls = 2
    /\ arg["t1"].kind = "hex32"
    /\ HasFace(hash["t1"].img)
    /\ hash["t1"] \notin DOMAIN processed_cache

\* ---------------------------------------------------------------------
\* C18: the event loop never blocks on a model computation: no call is ever
\* inside one on the loop's thread, and while a computation is running every
\* connection can go on: one that waits for a message can receive and
\* handle any message, one that has an answer to send can send it.
C18_LoopNeverBlocked ==
    /\ LoopHeldBy = {}
    /\ (\E t \in Tasks : pc[t] \in Computations) =>
          \A c \in Conns :
             /\ wpc[c] = "send_json" => ENABLED SendJson(c)
             /\ (/\ wpc[c] = "receive"
                 /\ calls < MaxCalls
                 /\ \A d \in Before(c) : received[d] > 0 \/ wpc[d] = "closed")
                   => \A m \in WsMessages : ENABLED Receive(c, m)

\* A message was received while the one computation was running, and its
\* answer has been sent while that computation is still running.
C18_Witness ==
    /\ pc["t1"] \in Computations
    /\ calls = 2
    /\ \E c \in Conns :
          /\ Len(out[c]) = 1
          /\ out[c][1].busy

\* ---------------------------------------------------------------------
\* C21: expression deltas add up: after the loop over the table every
\* coordinate is its baseline value plus the sum of value * factor over all
\* the adjustments that name it, whatever parameters are non-zero together.
\* The entries of the table that name coordinate k of landmark j (landmark
\* and coordinate of an entry are literals of the source).
EntriesOn ==
    [j \in Landmarks |-> [k \in Coords |->
        {n \in 1..Len(Modifications([x \in {} |-> 0])) :
            /\ Modifications([x \in {} |-> 0])[n][2] = j
            /\ Modifications([x \in {} |-> 0])[n][3] = k}]]

RECURSIVE SumOver(_, _, _)
SumOver(S, p, adj) ==
    IF S = {} THEN 0
    ELSE LET n == CHOOSE x \in S : TRUE
         IN ParamGet(p, adj[n][1]) * adj[n][4] + SumOver(S \ {n}, p, adj)

SumFor(p, adj, j, k) == SumOver(EntriesOn[j][k], p, adj)

C21_DeltasAdditive ==
    \A e \in 1..Len(edits) :
        \A j \in Landmarks, k \in Coords :
            edits[e].tab[j][k] =
                KpInfo(editBase).kp[j][k]
                + SumFor(edits[e].in, Modifications(edits[e].in), j, k)

\* smile and woo both move landmark 14, coordinate 1.
C21_Witness ==
    /\ Len(edits) >= 1
    /\ ParamGet(edits[1].in, "smile") # 0
    /\ ParamGet(edits[1].in, "woo") # 0
    /\ edits[1].tab[14][1] =
          KpInfo(editBase).kp[14][1]
          - 2000 * edits[1].in["smile"] + 100 * edits[1].in["woo"]

\* ---------------------------------------------------------------------
\* C22, as stated: but for pupil_x, the factors of the table do not depend
\* on the parameter values, so with pupil_x = 0 every coordinate moves by the
\* sum of value * factor taken from one fixed table.  The eyebrow factors
\* depend on the sign of eyebrow (lines 255-258): the formula is violated.
NoParams == [n \in {} |-> 0]
ReferenceTable == Modifications(NoParams)
TableOf(n, p) == SelectSeq(Modifications(p), LAMBDA a : a[1] = n)

C22_TableFixedButPupilX ==
    \A e \in 1..Len(edits) :
        /\ \A n \in ExpressionNames \ {"pupil_x"} :
              TableOf(n, edits[e].in) = TableOf(n, NoParams)
        /\ ParamGet(edits[e].in, "pupil_x") = 0 =>
              \A j \in Landmarks, k \in Coords :
                  edits[e].tab[j][k] =
                      KpInfo(editBase).kp[j][k]
                      + SumFor(edits[e].in, ReferenceTable, j, k)

\* C22, amended: but for pupil_x and eyebrow, the factors of the table do
\* not depend on the parameter values: with pupil_x = 0 and eyebrow = 0 every
\* coordinate moves by the sum of value * factor taken from one fixed table,
\* for positive and for negative values alike.
C22_TableFixedButPupilXAndEyebrow ==
    \A e \in 1..Len(edits) :
        /\ \A n \in ExpressionNames \ {"pupil_x", "eyebrow"} :
              TableOf(n, edits[e].in) = TableOf(n, NoParams)
        /\ (ParamGet(edits[e].in, "pupil_x") = 0 /\ ParamGet(edits[e].in, "eyebrow") = 0) =>
              \A j \in Landmarks, k \in Coords :
                  edits[e].tab[j][k] =
                      KpInfo(editBase).kp[j][k]
                      + SumFor(edits[e].in, ReferenceTable, j, k)

C22_Witness ==
    /\ Len(edits) >= 1
    /\ ParamGet(edits[1].in, "smile") > 0
    /\ ParamGet(edits[1].in, "woo") < 0
    /\ edits[1].tab[20][1] # KpInfo(editBase).kp[20][1]

\* ---------------------------------------------------------------------
\* C23: pupil_x moves coordinate 0 of landmarks 11 and 15 and nothing else;
\* its factor is 0.0007 for landmark 11 and 0.001 for landmark 15 when
\* pupil_x > 0, and 0.001 for landmark 11 and 0.0007 for landmark 15
\* otherwise.
WithoutPupilX(p) == [n \in DOMAIN p \ {"pupil_x"} |-> p[n]]

C23_PupilXBySign ==
    \A e \in 1..Len(edits) :
        LET v == ParamGet(edits[e].in, "pupil_x")
            rest == EditKeypoints(KpInfo(editBase), WithoutPupilX(edits[e].in)).tab
        IN edits[e].tab =
              [rest EXCEPT ![11][0] = @ + v * (IF v > 0 THEN 70 ELSE 100),
                           ![15][0] = @ + v * (IF v > 0 THEN 100 ELSE 70)]

C23_Witness ==
    /\ Len(edits) >= 1
    /\ ParamGet(edits[1].in, "pupil_x") > 0
    /\ edits[1].tab[11][0] = KpInfo(editBase).kp[11][0] + 70 * edits[1].in["pupil_x"]
    /\ edits[1].tab[15][0] = KpInfo(editBase).kp[15][0] + 100 * edits[1].in["pupil_x"]

\* ---------------------------------------------------------------------
\* C24: the edit leaves its parameter argument alone: after the call the
\* caller's dict has the names and values it had before.  Line 270 assigns
\* params['eyes'], which adds the name when it was absent and changes its
\* value when pupil_y # 0: the formula is violated.
C24_ParamsUntouched ==
    \A e \in 1..Len(edits) : edits[e].after = edits[e].in

\* ---------------------------------------------------------------------
\* C25: the store's mappings are read and written on the event loop only: a
\* step taken by a worker thread changes none of them.  _process_image runs
\* in the worker thread and assigns self.processed_cache[image_hash] there
\* (line 128), as the lru_cache wrapper records the result: the formula is
\* violated.
C25_StoreTouchedOnLoopOnly ==
    [][\A t \in Tasks :
          (pc[t] \in WorkerPositions /\ pc'[t] # pc[t])
              => (/\ image_cache' = image_cache
                  /\ DOMAIN processed_cache' = DOMAIN processed_cache
                  /\ memo' = memo)]_vars

\* ---------------------------------------------------------------------
\* C26: every bundle of processed_cache has all its fields and comes from an
\* image in which a face was found; a call whose extraction is still running
\* or has failed has inserted nothing.
C26_BundlesFullyPopulated ==
    /\ \A h \in DOMAIN processed_cache :
          /\ DOMAIN processed_cache[h] = BundleFields
          /\ h \in DOMAIN image_cache
          /\ HasFace(image_cache[h].img)
    /\ \A t \in Tasks :
          /\ pc[t] \in WorkerPositions => ~stored[t]
          /\ (pc[t] = "done" /\ result[t] = Raised(NoFaceMsg)) => ~stored[t]
          /\ stored[t] => hash[t] \in DOMAIN processed_cache

\* One extraction has failed on a picture with a face and left no bundle,
\* while another picture's bundle is stored.
C26_Witness ==
    /\ DOMAIN processed_cache # {}
    /\ \E t \in Tasks :
          /\ pc[t] = "done"
          /\ result[t] = Raised("inference failed")
          /\ HasFace(hash[t].img)
          /\ hash[t] \in DOMAIN image_cache
          /\ hash[t] \notin DOMAIN processed_cache

\* ---------------------------------------------------------------------
\* C27: processed_cache holds digests of image_cache only, and the same
\* digests as image_cache whenever no extraction is running.  An extraction
\* that fails leaves the image in image_cache (line 158) with no bundle: the
\* formula is violated.
C27_CachesInStep ==
    /\ DOMAIN processed_cache \subseteq DOMAIN image_cache
    /\ (\A t \in Tasks : pc[t] \notin WorkerPositions)
          => DOMAIN processed_cache = DOMAIN image_cache

\* The part that holds: every bundle has its raw image.
C27_ProcessedSubsetOfRaw ==
    DOMAIN processed_cache \subseteq DOMAIN image_cache

====
